---- MODULE Spec2Model ----
(***************************************************************************)
(* Banner Chat signaling server (src/server.js): the room/session state    *)
(* machine, the admission guard, the chat relay, the forwarding of WebRTC  *)
(* signals and private-chat invitations, and the idle-room reaper.         *)
(* Every handler runs to completion on Node's single event loop, so each   *)
(* handler is one atomic action.                                           *)
(***************************************************************************)
EXTENDS Integers, Sequences, FiniteSets, TLC

(* ------------------------------ bounds --------------------------------- *)

\* Number of sockets the transport hands to io.on('connection') in a run.
MaxSockets == 2

\* Number of sockets in the admission-only specification.
MaxAdmissionSockets == 12

\* The clock (Date.now(), in minutes) stops advancing here.
MaxTime == 60

\* Minutes the clock advances in one step.
ClockStep == 30

(* ------------------------- program constants --------------------------- *)

MAX_CONNECTIONS_PER_IP == 10

\* 30 * 60 * 1000 ms, in minutes.
INACTIVE_MINUTES == 30

MAX_ROOM_CODE_LENGTH == 50

MAX_NICKNAME_LENGTH == 16

MAX_MESSAGE_LENGTH == 500

(* --------------------------- JavaScript values -------------------------- *)

\* A string is a sequence of one-character strings, so that toUpperCase and
\* trim are computed and not assumed.
Str(s) == [t |-> "string", s |-> s]

Undefined == [t |-> "undefined", s |-> <<>>]

Null == [t |-> "null", s |-> <<>>]

\* Some non-zero number: truthy, and without length, toUpperCase or trim.
Num == [t |-> "number", s |-> <<>>]

IsString(v) == v.t = "string"

\* !v is false exactly for these.
Truthy(v) == (v.t = "string" /\ v.s # <<>>) \/ v.t = "number"

\* v.length > n: undefined > n is false.
LengthExceeds(v, n) == IsString(v) /\ Len(v.s) > n

ToUpperChar(c) ==
  CASE c = "a" -> "A"
    [] c = "b" -> "B"
    [] OTHER -> c

ToUpperCase(s) == [i \in 1..Len(s) |-> ToUpperChar(s[i])]

RECURSIVE TrimStart(_)
TrimStart(s) == IF s # <<>> /\ Head(s) = " " THEN TrimStart(Tail(s)) ELSE s

RECURSIVE TrimEnd(_)
TrimEnd(s) ==
  IF s # <<>> /\ s[Len(s)] = " " THEN TrimEnd(SubSeq(s, 1, Len(s) - 1)) ELSE s

Trim(s) == TrimEnd(TrimStart(s))

\* x.toUpperCase() without the trim().
CleanNoTrim(s) == ToUpperCase(s)

\* x.toUpperCase().trim()
Clean(s) == Trim(ToUpperCase(s))

Repeat(c, n) == [i \in 1..n |-> c]

(* ------------------------------- inputs --------------------------------- *)

Addresses == {"ip1", "ip2"}

\* The address of the clients of the room specification.
RoomAddresses == {"ip1"}

\* The second room code the clients of a run send, beside "a" and " A": an
\* ordinary one, or one made of blanks only (a truthy string that
\* toUpperCase().trim() turns into the empty string).
OtherRoomCodes == { Str(<<"b">>), Str(<<" ">>) }

JoinData(roomCode, nickname) == [roomCode |-> roomCode, nickname |-> nickname]

\* The join-room data every run uses.
FixedJoinInputs ==
  { JoinData(Str(<<"a">>), Str(<<"a">>)),
    JoinData(Str(<<" ", "A">>), Str(<<"A", " ">>)),
    JoinData(Str(<<"a">>), Str(<<"b">>)),
    JoinData(Str(<<>>), Str(<<"a">>)),
    JoinData(Undefined, Str(<<"a">>)),
    JoinData(Str(Repeat("a", MAX_ROOM_CODE_LENGTH + 1)), Str(<<"a">>)),
    JoinData(Str(<<"a">>), Str(<<>>)),
    JoinData(Str(<<"a">>), Undefined),
    JoinData(Str(<<"a">>), Str(Repeat("a", MAX_NICKNAME_LENGTH + 1))),
    JoinData(Num, Str(<<"a">>)) }

ChatData(roomCode, message) == [roomCode |-> roomCode, message |-> message]

\* The chat-message data every run uses.
FixedChatInputs ==
  { ChatData(Str(<<"A">>), Str(<<"a">>)),
    ChatData(Str(<<"a">>), Str(<<"a">>)),
    ChatData(Undefined, Str(<<"a">>)),
    ChatData(Str(<<"A">>), Str(<<>>)),
    ChatData(Str(<<"A">>), Undefined),
    ChatData(Str(<<"A">>), Str(Repeat("a", MAX_MESSAGE_LENGTH + 1))),
    ChatData(Str(<<"A">>), Str(Repeat("a", MAX_MESSAGE_LENGTH))) }

(* -------------------------------- state --------------------------------- *)

VARIABLES
  nextSocket,       \* the id the transport gives the next socket
  clientIp,         \* connected socket id -> socket.handshake.address
  userConnections,  \* the Map address -> open-connection count
  userData,         \* socket id -> the userData object of its closure
  userSockets,      \* the Map socket id -> userData, as its keys in order
  activeRooms,      \* the Map room code -> room
  socketRooms,      \* socket id -> the broadcast groups socket.join put it in
  now,              \* Date.now(), minutes
  last,             \* the name of the event the last handler ran for
  outbox,           \* the events the last handler emitted, in order
  otherRoom         \* the second room code the clients of this run send

vars ==
  << nextSocket, clientIp, userConnections, userData, userSockets,
     activeRooms, socketRooms, now, last, outbox, otherRoom >>

\* What the program itself holds (everything but the observation of a step).
serverState ==
  << userConnections, userData, userSockets, activeRooms, socketRooms >>

\* The sockets whose handlers are registered and that have not disconnected.
OpenSockets == DOMAIN clientIp

(* ------------------------------ client data ---------------------------- *)

\* The data of a join-room event: codes and nicknames that differ in case and
\* surrounding blanks only, the other room code of the run, two nicknames, and
\* each way of being invalid.
JoinInputs == FixedJoinInputs \cup { JoinData(otherRoom, Str(<<"a">>)) }

\* The data of a chat-message event; its roomCode is compared as sent, so the
\* clients send the codes as the server stored them.
ChatInputs ==
  FixedChatInputs \cup { ChatData(Str(Clean(otherRoom.s)), Str(<<"a">>)) }

(* ------------------------------ Map helpers ----------------------------- *)

\* Map.prototype.set on a function with a growing domain.
MapSet(m, k, v) == [x \in DOMAIN m \cup {k} |-> IF x = k THEN v ELSE m[x]]

MapDelete(m, k) == [x \in DOMAIN m \ {k} |-> m[x]]

\* room.users is a Map in insertion order: a sequence of member records.
UserIds(users) == { users[i].socketId : i \in 1..Len(users) }

UsersHas(users, id) == id \in UserIds(users)

\* users.set(id, member) as if a Map kept a second entry for a key it has.
UsersSetAppends(users, id, member) == Append(users, member)

\* users.set(id, member): replaces in place, or appends.
UsersSet(users, id, member) ==
  IF UsersHas(users, id)
  THEN [i \in 1..Len(users) |-> IF users[i].socketId = id THEN member ELSE users[i]]
  ELSE Append(users, member)

\* users.delete(id)
UsersDelete(users, id) == SelectSeq(users, LAMBDA u : u.socketId # id)

\* The sockets in broadcast group g (the adapter's room g), given the groups
\* each socket has joined.
Group(joined, g) == { c \in DOMAIN joined : g \in joined[c] }

\* Array.from(room.users.values()).map(...) of the join handler.
JoinRoster(users, me) ==
  [ i \in 1..Len(users) |->
      [ socketId |-> users[i].socketId, nickname |-> users[i].nickname,
        isMe |-> users[i].socketId = me ] ]

\* Array.from(room.users.values()).map(...) of handleUserLeave.
LeaveRoster(users) ==
  [ i \in 1..Len(users) |->
      [ socketId |-> users[i].socketId, nickname |-> users[i].nickname ] ]

(* ------------------------------ observation ----------------------------- *)

Event(name, to, payload) == [event |-> name, to |-> to, payload |-> payload]

(* ------------------------------ Init ------------------------------------ *)

Init ==
  /\ nextSocket = 1
  /\ clientIp = << >>
  /\ userConnections = << >>
  /\ userData = << >>
  /\ userSockets = << >>
  /\ activeRooms = << >>
  /\ socketRooms = << >>
  /\ now = 0
  /\ last = "start"
  /\ outbox = << >>
  /\ otherRoom \in OtherRoomCodes

(* ---------------------- io.on('connection') ----------------------------- *)

ConnectionCount(ip) ==
  IF ip \in DOMAIN userConnections THEN userConnections[ip] ELSE 0

\* The rate-limit check with > for >=.
RateLimitedOffByOne(ip) == ConnectionCount(ip) > MAX_CONNECTIONS_PER_IP

\* Line 88.
RateLimited(ip) == ConnectionCount(ip) >= MAX_CONNECTIONS_PER_IP

Connection(ip, limit) ==
  /\ nextSocket <= limit
  /\ LET c == nextSocket IN
     /\ nextSocket' = c + 1
     /\ last' = "connection"
     /\ IF RateLimited(ip)
        THEN /\ outbox' = << Event("error", {c},
                                   [message |-> "Too many connections from this IP"]) >>
             /\ UNCHANGED << clientIp, userConnections, userData, userSockets,
                             activeRooms, socketRooms >>
        ELSE /\ clientIp' = MapSet(clientIp, c, ip)
             /\ userConnections' = MapSet(userConnections, ip, ConnectionCount(ip) + 1)
             /\ userData' = MapSet(userData, c,
                  [socketId |-> c, nickname |-> Null, roomCode |-> Null])
             /\ userSockets' = Append(userSockets, c)
             /\ socketRooms' = MapSet(socketRooms, c, {})
             /\ outbox' = << >>
             /\ UNCHANGED activeRooms
  /\ UNCHANGED << now, otherRoom >>

Connect == \E ip \in RoomAddresses : Connection(ip, MaxSockets)

ConnectAdmission == \E ip \in Addresses : Connection(ip, MaxAdmissionSockets)

(* ------------------------ socket.on('join-room') ------------------------ *)

\* The validation without its length checks.
JoinInputInvalidNoLength(roomCode, nickname) ==
  ~Truthy(roomCode) \/ ~Truthy(nickname)

\* The validation of lines 119-120.
JoinInputInvalid(roomCode, nickname) ==
  \/ ~Truthy(roomCode)
  \/ ~Truthy(nickname)
  \/ LengthExceeds(roomCode, MAX_ROOM_CODE_LENGTH)
  \/ LengthExceeds(nickname, MAX_NICKNAME_LENGTH)

\* nickname.toUpperCase / roomCode.toUpperCase is not a function: a TypeError,
\* thrown before anything is assigned and caught at line 202.
JoinThrows(roomCode, nickname) == ~IsString(nickname) \/ ~IsString(roomCode)

\* The duplicate scan with === for !== in the comparison of the ids.
NicknameTakenByOwnEntry(users, cleanNickname, c) ==
  \E i \in 1..Len(users) :
    users[i].nickname = cleanNickname /\ users[i].socketId = c

\* The duplicate scan of lines 147-154.
NicknameTaken(users, cleanNickname, c) ==
  \E i \in 1..Len(users) :
    users[i].nickname = cleanNickname /\ users[i].socketId # c

\* The room of lines 135-140. `created`, like the joinTime of userData and of
\* a member, is written once and read by no handler (only by GET /api/rooms):
\* it is left out of the state.
NewRoom(code) == [code |-> code, users |-> << >>, lastActivity |-> now]

JoinError(c, text) == Event("join-error", {c}, [message |-> text])

JoinRoom(c, roomCode, nickname) ==
  /\ c \in OpenSockets
  /\ last' = "join-room"
  /\ IF JoinInputInvalid(roomCode, nickname)
     THEN /\ outbox' = << JoinError(c, "Invalid room code or nickname") >>
          /\ UNCHANGED << userData, activeRooms, socketRooms >>
     ELSE IF JoinThrows(roomCode, nickname)
     THEN /\ outbox' = << JoinError(c, "Failed to join room") >>
          /\ UNCHANGED << userData, activeRooms, socketRooms >>
     ELSE
       LET cleanNickname == Clean(nickname.s)
           cleanRoomCode == Clean(roomCode.s)
           \* lines 130-131: assigned before the room is looked at
           data1 == [userData EXCEPT ![c].nickname = Str(cleanNickname),
                                     ![c].roomCode = Str(cleanRoomCode)]
           rooms1 == IF cleanRoomCode \in DOMAIN activeRooms
                     THEN activeRooms
                     ELSE MapSet(activeRooms, cleanRoomCode, NewRoom(cleanRoomCode))
           room == rooms1[cleanRoomCode]
       IN
         /\ userData' = data1
         /\ IF NicknameTaken(room.users, cleanNickname, c)
            THEN
              /\ activeRooms' = rooms1
              /\ outbox' = << JoinError(c, "Nickname already taken in this room") >>
              /\ UNCHANGED socketRooms
            ELSE
              LET users2 == UsersSet(room.users, c,
                              [socketId |-> c, nickname |-> cleanNickname])
                  joined2 == [socketRooms EXCEPT ![c] = @ \cup {cleanRoomCode}]
              IN
                /\ activeRooms' =
                     [rooms1 EXCEPT ![cleanRoomCode] =
                        [@ EXCEPT !.users = users2, !.lastActivity = now]]
                /\ socketRooms' = joined2
                /\ outbox' =
                     << Event("room-joined", {c},
                          [ roomCode |-> cleanRoomCode, nickname |-> cleanNickname,
                            userCount |-> Len(users2) ]),
                        Event("users-updated", Group(joined2, cleanRoomCode),
                          [ users |-> JoinRoster(users2, c), userCount |-> Len(users2) ]),
                        Event("user-joined", Group(joined2, cleanRoomCode) \ {c},
                          [ user |-> [socketId |-> c, nickname |-> cleanNickname] ]) >>
  /\ UNCHANGED << nextSocket, clientIp, userConnections, userSockets, now,
                  otherRoom >>

Join == \E c \in OpenSockets, data \in JoinInputs :
          JoinRoom(c, data.roomCode, data.nickname)

(* --------------------------- handleUserLeave ---------------------------- *)

\* `joined` is the adapter's state when the handler starts: socketRooms for
\* leave-room; for disconnect the socket has already left every group.
\* RoomsAfterLeave without the removal of the empty room.
RoomsAfterLeaveKeepsEmpty(code, users1) ==
  [activeRooms EXCEPT ![code] =
     [@ EXCEPT !.users = users1, !.lastActivity = now]]

\* Lines 363-364 and 385-389: the room without the member, and no room at all
\* when no member is left.
RoomsAfterLeave(code, users1) ==
  IF Len(users1) = 0
  THEN MapDelete(activeRooms, code)
  ELSE [activeRooms EXCEPT ![code] =
          [@ EXCEPT !.users = users1, !.lastActivity = now]]

\* `closing`: the socket is gone when the handler returns, and with it the
\* closure that holds userData and the adapter's entry for the socket.
HandleUserLeave(c, joined, closing) ==
  LET roomCode == userData[c].roomCode IN
  /\ IF Truthy(roomCode)
     THEN
       /\ IF roomCode.s \in DOMAIN activeRooms
          THEN
            LET room == activeRooms[roomCode.s]
                users1 == UsersDelete(room.users, c)
            IN
              /\ activeRooms' = RoomsAfterLeave(roomCode.s, users1)
              /\ outbox' =
                   << Event("user-left", Group(joined, roomCode.s) \ {c},
                        [ user |-> [socketId |-> c, nickname |-> userData[c].nickname] ]),
                      Event("users-updated", Group(joined, roomCode.s),
                        [ users |-> LeaveRoster(users1), userCount |-> Len(users1) ]) >>
          ELSE /\ UNCHANGED activeRooms
               /\ outbox' = << >>
       /\ socketRooms' = IF closing THEN MapDelete(joined, c)
                          ELSE [joined EXCEPT ![c] = @ \ {roomCode.s}]
     ELSE /\ UNCHANGED activeRooms
          /\ outbox' = << >>
          /\ socketRooms' = IF closing THEN MapDelete(joined, c) ELSE joined
  /\ userSockets' = SelectSeq(userSockets, LAMBDA x : x # c)
  /\ userData' = IF closing THEN MapDelete(userData, c)
                            ELSE [userData EXCEPT ![c].roomCode = Null]

(* ------------------------ socket.on('leave-room') ----------------------- *)

LeaveRoom(c) ==
  /\ c \in OpenSockets
  /\ last' = "leave-room"
  /\ HandleUserLeave(c, socketRooms, FALSE)
  /\ UNCHANGED << nextSocket, clientIp, userConnections, now, otherRoom >>

Leave == \E c \in OpenSockets : LeaveRoom(c)

(* ------------------------ socket.on('disconnect') ----------------------- *)

\* Lines 344-349.
Released(ip) ==
  LET connectionCount == IF ConnectionCount(ip) = 0 THEN 1 ELSE ConnectionCount(ip)
  IN IF connectionCount <= 1
     THEN MapDelete(userConnections, ip)
     ELSE MapSet(userConnections, ip, connectionCount - 1)

DisconnectSocket(c) ==
  /\ c \in OpenSockets
  /\ last' = "disconnect"
  /\ clientIp' = MapDelete(clientIp, c)
  /\ HandleUserLeave(c, [socketRooms EXCEPT ![c] = {}], TRUE)
  /\ userConnections' = Released(clientIp[c])
  /\ UNCHANGED << nextSocket, now, otherRoom >>

Disconnect == \E c \in OpenSockets : DisconnectSocket(c)

(* ----------------------- socket.on('chat-message') ---------------------- *)

\* The checks of the chat handler without the length check.
ChatDroppedNoLength(c, roomCode, message) ==
  \/ ~Truthy(userData[c].roomCode)
  \/ userData[c].roomCode # roomCode
  \/ ~Truthy(message)
  \/ roomCode.s \notin DOMAIN activeRooms
  \/ ~UsersHas(activeRooms[roomCode.s].users, c)

\* The three early returns of lines 241-253.
ChatDropped(c, roomCode, message) ==
  \/ ~Truthy(userData[c].roomCode)
  \/ userData[c].roomCode # roomCode
  \/ ~Truthy(message)
  \/ LengthExceeds(message, MAX_MESSAGE_LENGTH)
  \/ roomCode.s \notin DOMAIN activeRooms
  \/ ~UsersHas(activeRooms[roomCode.s].users, c)

ChatMessage(c, roomCode, message) ==
  /\ c \in OpenSockets
  /\ last' = "chat-message"
  /\ UNCHANGED << nextSocket, clientIp, userConnections, userData,
                  userSockets, socketRooms, now, otherRoom >>
  /\ IF ChatDropped(c, roomCode, message)
     THEN /\ outbox' = << >>
          /\ UNCHANGED activeRooms
     ELSE /\ outbox' =
               << Event("chat-message", Group(socketRooms, roomCode.s) \ {c},
                    [ sender |-> userData[c].nickname, content |-> message,
                      type |-> "text" ]) >>
          /\ activeRooms' = [activeRooms EXCEPT ![roomCode.s].lastActivity = now]

Chat == \E c \in OpenSockets, data \in ChatInputs :
          ChatMessage(c, data.roomCode, data.message)

(* ----------------------- socket.on('webrtc-signal') --------------------- *)

\* socket.id as a string. The transport draws ids at random; "#" and the
\* socket's number stand for an id no room code of the clients equals.
SocketId(k) == Str(<< "#", ToString(k) >>)

\* The sockets an emit to the group `name` addresses: those that joined it
\* with socket.join, and the socket whose id it is (socket.io keeps every
\* socket in the group of its own id from connect to disconnect).
Addressed(joined, name) ==
  Group(joined, name) \cup { k \in OpenSockets : SocketId(k).s = name }

SignalData(targetSocketId, signal, type) ==
  [targetSocketId |-> targetSocketId, signal |-> signal, type |-> type]

\* The data of a webrtc-signal event: the id of each socket of the run, an id
\* no socket has, a room code in the place of the id, and a missing id or
\* payload.
SignalInputs ==
  { SignalData(SocketId(k), Str(<<"a">>), Str(<<"b">>)) : k \in 1..MaxSockets + 1 }
    \cup
  { SignalData(Str(<<"A">>), Str(<<"a">>), Str(<<"b">>)),
    SignalData(Undefined, Str(<<"a">>), Str(<<"b">>)),
    SignalData(SocketId(1), Undefined, Str(<<"b">>)) }

\* Line 213.
SignalDropped(targetSocketId, signal) ==
  ~Truthy(targetSocketId) \/ ~Truthy(signal)

WebrtcSignal(c, targetSocketId, signal, type) ==
  /\ c \in OpenSockets
  /\ last' = "webrtc-signal"
  /\ IF SignalDropped(targetSocketId, signal)
     THEN outbox' = << >>
     ELSE outbox' =
            << Event("webrtc-signal",
                 Addressed(socketRooms, targetSocketId.s) \ {c},
                 [ fromSocketId |-> c, fromNickname |-> userData[c].nickname,
                   signal |-> signal, type |-> type ]) >>
  /\ UNCHANGED << nextSocket, clientIp, userConnections, userData,
                  userSockets, activeRooms, socketRooms, now, otherRoom >>

Signal == \E c \in OpenSockets, data \in SignalInputs :
            WebrtcSignal(c, data.targetSocketId, data.signal, data.type)

(* -------------------- socket.on('private-chat-invite') ------------------ *)

InviteData(fromUser, toUser, roomCode) ==
  [fromUser |-> fromUser, toUser |-> toUser, roomCode |-> roomCode]

\* The data of a private-chat-invite event: a target nickname as the server
\* stores it, the same in lower case, another one, and each field missing.
InviteInputs ==
  { InviteData(Str(<<"B">>), Str(<<"A">>), Str(<<"A">>)),
    InviteData(Str(<<"B">>), Str(<<"a">>), Str(<<"A">>)),
    InviteData(Str(<<"A">>), Str(<<"B">>), Str(<<"A">>)),
    InviteData(Undefined, Str(<<"A">>), Str(<<"A">>)),
    InviteData(Str(<<"B">>), Undefined, Str(<<"A">>)),
    InviteData(Str(<<"B">>), Str(<<"A">>), Undefined) }

\* Line 283.
InviteDropped(fromUser, toUser, roomCode) ==
  ~Truthy(fromUser) \/ ~Truthy(toUser) \/ ~Truthy(roomCode)

\* Lines 289-299: the first entry of userSockets, in insertion order, whose
\* nickname === toUser; 0 stands for null.
RECURSIVE FindTarget(_, _)
FindTarget(entries, toUser) ==
  IF entries = << >> THEN 0
  ELSE IF userData[Head(entries)].nickname = toUser THEN Head(entries)
  ELSE FindTarget(Tail(entries), toUser)

PrivateChatInvite(c, fromUser, toUser, roomCode) ==
  /\ c \in OpenSockets
  /\ last' = "private-chat-invite"
  /\ IF InviteDropped(fromUser, toUser, roomCode)
     THEN outbox' = << >>
     ELSE LET targetSocketId == FindTarget(userSockets, toUser) IN
          IF targetSocketId # 0
          THEN outbox' =
                 << Event("private-chat-invite",
                      Addressed(socketRooms, SocketId(targetSocketId).s),
                      [ fromUser |-> fromUser, toUser |-> toUser,
                        roomCode |-> roomCode ]) >>
          ELSE outbox' = << >>
  /\ UNCHANGED << nextSocket, clientIp, userConnections, userData,
                  userSockets, activeRooms, socketRooms, now, otherRoom >>

Invite == \E c \in OpenSockets, data \in InviteInputs :
            PrivateChatInvite(c, data.fromUser, data.toUser, data.roomCode)

(* --------------------------- cleanupInactiveRooms ----------------------- *)

\* The test of line 48 with >= for >.
InactiveAtBoundary(room) == now - room.lastActivity >= INACTIVE_MINUTES

\* Line 48.
Inactive(room) == now - room.lastActivity > INACTIVE_MINUTES

CleanupInactiveRooms ==
  /\ activeRooms' =
       [ code \in { k \in DOMAIN activeRooms : ~Inactive(activeRooms[k]) } |->
           activeRooms[code] ]
  /\ last' = "cleanup"
  /\ outbox' = << >>
  /\ UNCHANGED << nextSocket, clientIp, userConnections, userData,
                  userSockets, socketRooms, now, otherRoom >>

(* -------------------------------- the clock ----------------------------- *)

AdvanceClock ==
  /\ now + ClockStep <= MaxTime
  /\ now' = now + ClockStep
  /\ last' = "clock"
  /\ outbox' = << >>
  /\ UNCHANGED << nextSocket, clientIp, userConnections, userData,
                  userSockets, activeRooms, socketRooms, otherRoom >>

(* ---------------------------- specifications ---------------------------- *)

Next ==
  \/ Connect
  \/ Join
  \/ Leave
  \/ Disconnect
  \/ Chat
  \/ CleanupInactiveRooms
  \/ AdvanceClock

Spec == Init /\ [][Next]_vars

\* The handlers that write Sessions and memberships, at one instant: no chat,
\* no clock and so no reaper. The claims about what one join does are checked
\* here, over every (socket, data) pair at every join step.
NextMembership ==
  \/ Connect
  \/ Join
  \/ Leave
  \/ Disconnect

SpecMembership == Init /\ [][NextMembership]_vars

\* The two handlers that address one connection and write no state, with the
\* handlers that write the Sessions and memberships they read.
NextDirect ==
  \/ Connect
  \/ Join
  \/ Leave
  \/ Disconnect
  \/ Signal
  \/ Invite

SpecDirect == Init /\ [][NextDirect]_vars

\* The admission guard alone: many sockets from two addresses that connect
\* and disconnect.
NextAdmission ==
  \/ ConnectAdmission
  \/ Disconnect

\* No join happens here, so one room code stands for both.
InitAdmission == Init /\ otherRoom = Str(<<"b">>)

SpecAdmission == InitAdmission /\ [][NextAdmission]_vars

(* ======================================================================= *)
(* The claims                                                              *)
(* ======================================================================= *)

\* The Session Registry: the connections userSockets has an entry for; the
\* Session of connection c is userData[c], the object the entry refers to.
Registered == { userSockets[i] : i \in 1..Len(userSockets) }

RoomCodes == DOMAIN activeRooms

Members(code) == UserIds(activeRooms[code].users)

\* Trimmed and upper-cased, as the claims say it.
Normalized(s) == Trim(ToUpperCase(s))

(* ---------------------------------- C1 ---------------------------------- *)

\* C1: between handled events, for every Room of the directory each Member
\* belongs to a connection whose Session's room field is that Room's code,
\* and the membership size is the number of Sessions whose room field is
\* that code.
C1_MembershipMatchesSessions ==
  \A code \in RoomCodes :
    /\ \A c \in Members(code) :
         c \in Registered /\ userData[c].roomCode = Str(code)
    /\ Len(activeRooms[code].users) =
         Cardinality({ c \in Registered : userData[c].roomCode = Str(code) })

(* ---------------------------------- C2 ---------------------------------- *)

\* C2: between handled events, every Session whose room field is not null
\* names a room code of the directory whose membership contains the
\* Session's connection id.
C2_SessionRoomHoldsMember ==
  \A c \in Registered :
    userData[c].roomCode # Null =>
      /\ IsString(userData[c].roomCode)
      /\ userData[c].roomCode.s \in RoomCodes
      /\ c \in Members(userData[c].roomCode.s)

(* ---------------------------------- C3 ---------------------------------- *)

\* C3: no Room holds two Member entries, for two different connection ids,
\* whose normalized (trimmed, upper-cased) nicknames are equal.
C3_NicknamesUniqueInRoom ==
  \A code \in RoomCodes :
    LET users == activeRooms[code].users IN
    \A i, j \in 1..Len(users) :
      i # j =>
        /\ users[i].socketId # users[j].socketId
        /\ Normalized(users[i].nickname) # Normalized(users[j].nickname)

\* C3 witness: a member of a two-member room has just re-joined it (it is
\* acknowledged, and it is not the last entry in insertion order).
C3_Witness ==
  /\ last = "join-room"
  /\ Len(outbox) = 3
  /\ outbox[1].event = "room-joined"
  /\ \E code \in RoomCodes :
       LET users == activeRooms[code].users IN
       /\ Len(users) = 2
       /\ outbox[1].to = {users[1].socketId}
       /\ outbox[1].payload.roomCode = code
       /\ users[1].nickname # users[2].nickname

(* ---------------------------------- C4 ---------------------------------- *)

\* C4: each connection id is in the membership of at most one Room.
C4_MemberOfAtMostOneRoom ==
  \A code1, code2 \in RoomCodes :
    code1 # code2 => Members(code1) \cap Members(code2) = {}

(* ---------------------------------- C5 ---------------------------------- *)

\* The join-room data is valid and a connection other than c holds its
\* normalized nickname in the room of its normalized code.
C5_Collision(c, data) ==
  /\ IsString(data.roomCode) /\ IsString(data.nickname)
  /\ data.roomCode.s # << >> /\ data.nickname.s # << >>
  /\ Len(data.roomCode.s) <= 50
  /\ Len(data.nickname.s) <= 16
  /\ Normalized(data.roomCode.s) \in RoomCodes
  /\ LET users == activeRooms[Normalized(data.roomCode.s)].users IN
     \E i \in 1..Len(users) :
       /\ users[i].socketId # c
       /\ Normalized(users[i].nickname) = Normalized(data.nickname.s)

C5_RejectedJoinStep ==
  last' = "join-room" =>
  \A c \in OpenSockets, data \in JoinInputs :
    (C5_Collision(c, data) /\ JoinRoom(c, data.roomCode, data.nickname)) =>
      /\ Len(outbox') = 1
      /\ outbox'[1].event = "join-error"
      /\ outbox'[1].to = {c}
      /\ UNCHANGED << userData, userSockets, activeRooms >>

\* C5: a join-room rejected because another connection of the target room
\* holds the same normalized nickname emits join-error to the requester and
\* changes neither the requester's Session (nickname, room), nor the Room
\* Directory, nor any Room's membership.
C5_RejectedJoinMutatesNothing == [][C5_RejectedJoinStep]_vars

(* ---------------------------------- C6 ---------------------------------- *)

C6_Invalid(data) ==
  \/ data.roomCode = Undefined \/ data.roomCode = Str(<< >>)
  \/ data.nickname = Undefined \/ data.nickname = Str(<< >>)
  \/ (IsString(data.roomCode) /\ Len(data.roomCode.s) > 50)
  \/ (IsString(data.nickname) /\ Len(data.nickname.s) > 16)

\* What the claim promises of a step in which c's join-room is refused.
C6_Refused(c) ==
  /\ Len(outbox') = 1
  /\ outbox'[1].event = "join-error"
  /\ outbox'[1].to = {c}
  /\ UNCHANGED serverState

\* Every step that is the handling of an invalid join-room of c is as
\* promised (stated as: a step that is not as promised is no such handling).
C6_InvalidJoinStep ==
  last' = "join-room" =>
  \A c \in OpenSockets :
    ~C6_Refused(c) =>
      \A data \in JoinInputs :
        ~(C6_Invalid(data) /\ JoinRoom(c, data.roomCode, data.nickname))

\* C6: a join-room whose roomCode or nickname is missing or empty, or whose
\* roomCode has more than 50 or nickname more than 16 characters, emits
\* join-error to the requester and changes no state: Sessions, Room
\* Directory, memberships and rate-limit counters stay as they were.
C6_InvalidJoinChangesNothing == [][C6_InvalidJoinStep]_vars

\* C6 witness: an invalid join-room has just been answered while a room
\* exists.
C6_Witness ==
  /\ last = "join-room"
  /\ activeRooms # << >>
  /\ \E c \in OpenSockets :
       outbox = << JoinError(c, "Invalid room code or nickname") >>

(* ---------------------------------- C7 ---------------------------------- *)

OpenFrom(ip) == { c \in OpenSockets : clientIp[c] = ip }

C7_CounterInv ==
  \A ip \in Addresses :
    /\ ConnectionCount(ip) = Cardinality(OpenFrom(ip))
    /\ (ip \in DOMAIN userConnections) <=> (OpenFrom(ip) # {})
    /\ ConnectionCount(ip) <= 10

C7_AdmissionStep ==
  /\ last' = "connection" =>
     \A ip \in Addresses :
       Connection(ip, MaxAdmissionSockets) =>
         /\ (nextSocket \notin DOMAIN clientIp') <=> (ConnectionCount(ip) = 10)
         /\ (nextSocket \notin DOMAIN clientIp') =>
              /\ UNCHANGED userConnections
              /\ Len(outbox') = 1
              /\ outbox'[1].event = "error"
              /\ outbox'[1].to = {nextSocket}
         /\ (nextSocket \in DOMAIN clientIp') =>
              /\ clientIp'[nextSocket] = ip
              /\ ConnectionCount(ip)' = ConnectionCount(ip) + 1
  /\ last' = "disconnect" =>
     \A c \in OpenSockets \ DOMAIN clientIp', ip \in Addresses :
       (clientIp[c] = ip /\ ConnectionCount(ip) = 10 /\ DisconnectSocket(c)) =>
         ConnectionCount(ip)' = 9

\* C7: for every address the rate-limit counter is the number of accepted,
\* not yet disconnected connections from it (no entry exactly when that is
\* zero) and never exceeds 10; an attempt is rejected iff the counter is 10,
\* a rejected attempt leaves the counter alone, and when a connection from a
\* full address disconnects the counter is 9, so that the next attempt from
\* the address is accepted.
C7_RateLimit == []C7_CounterInv /\ [][C7_AdmissionStep]_vars

\* C7 witness: an attempt from an address with 10 open connections has just
\* been rejected.
C7_Witness ==
  /\ last = "connection"
  /\ Len(outbox) = 1
  /\ outbox[1].event = "error"
  /\ \E ip \in Addresses : Cardinality(OpenFrom(ip)) = 10

(* ---------------------------------- C8 ---------------------------------- *)

C8_RelayStep ==
  last' = "chat-message" =>
  \A c \in OpenSockets, data \in ChatInputs :
    ChatMessage(c, data.roomCode, data.message) =>
      \A i \in 1..Len(outbox') :
        outbox'[i].event = "chat-message" =>
          /\ c \notin outbox'[i].to
          /\ \A r \in outbox'[i].to : userData[r].roomCode = data.roomCode

\* C8: a relayed chat-message sent by connection s with room code R reaches
\* neither s nor any connection whose Session's room field differs from R at
\* that moment.
C8_RelayOnlyToRoom == [][C8_RelayStep]_vars

(* ---------------------------------- C9 ---------------------------------- *)

C9_Violation(c, data) ==
  \/ userData[c].roomCode = Null
  \/ userData[c].roomCode # data.roomCode
  \/ ~IsString(data.roomCode)
  \/ data.roomCode.s \notin RoomCodes
  \/ c \notin Members(data.roomCode.s)
  \/ data.message = Str(<< >>)
  \/ (IsString(data.message) /\ Len(data.message.s) > 500)

\* What the claim promises of a step in which a chat-message is dropped.
C9_Dropped ==
  /\ outbox' = << >>
  /\ UNCHANGED serverState

\* Every step that is the handling of a chat-message in violation is as
\* promised (stated as: a step that is not as promised is no such handling).
C9_DroppedChatStep ==
  (last' = "chat-message" /\ ~C9_Dropped) =>
    \A c \in OpenSockets, data \in ChatInputs :
      ~(C9_Violation(c, data) /\ ChatMessage(c, data.roomCode, data.message))

\* C9: a chat-message is dropped, with no outbound event to any connection
\* and no state change (the Room's last activity is not bumped), when the
\* sender's Session room is null or differs from the roomCode sent, or the
\* Room does not exist or does not hold the sender, or the text is empty or
\* longer than 500 characters.
C9_DroppedChatChangesNothing == [][C9_DroppedChatStep]_vars

\* C9 witness: a chat-message has just been dropped although its sender is a
\* member of its Session's room and another socket is in the room's group;
\* the room's last activity is in the past, so a bump would show.
C9_Witness ==
  /\ last = "chat-message"
  /\ outbox = << >>
  /\ \E c \in OpenSockets :
       /\ IsString(userData[c].roomCode)
       /\ userData[c].roomCode.s \in RoomCodes
       /\ c \in Members(userData[c].roomCode.s)
       /\ Group(socketRooms, userData[c].roomCode.s) \ {c} # {}
       /\ activeRooms[userData[c].roomCode.s].lastActivity < now

(* ---------------------------------- C10 --------------------------------- *)

C10_NoEmptyRoomInv == \A code \in RoomCodes : Len(activeRooms[code].users) > 0

\* A leave-room or disconnect of c after which c, until then the only member
\* of a room, is no longer a member of it, leaves no such room behind.
C10_LastMemberStep ==
  last' \in {"leave-room", "disconnect"} =>
  \A c \in OpenSockets :
    (LeaveRoom(c) \/ DisconnectSocket(c)) =>
      \A code \in RoomCodes :
        ( /\ Members(code) = {c}
          /\ \/ code \notin DOMAIN activeRooms'
             \/ c \notin UserIds(activeRooms'[code].users) ) =>
          code \notin DOMAIN activeRooms'

\* C10: no Room of the directory has an empty membership between handled
\* events, and a leave-room or disconnect that removes the last Member of a
\* Room leaves the directory without that Room.
C10_EmptyRoomRemoved == []C10_NoEmptyRoomInv /\ [][C10_LastMemberStep]_vars

\* C10 witness: a leave-room has just removed the last member of the only
\* room (the roster it sent is empty) and the directory is empty again.
C10_Witness ==
  /\ last = "leave-room"
  /\ Len(outbox) = 2
  /\ outbox[2].event = "users-updated"
  /\ outbox[2].payload.userCount = 0
  /\ activeRooms = << >>

(* ---------------------------------- C11 --------------------------------- *)

\* A reaper tick removes exactly the rooms idle for more than 30 minutes,
\* keeps every other room as it was, and touches nothing else.
C11_ReaperStep ==
  (last' = "cleanup" /\ CleanupInactiveRooms) =>
      /\ \A code \in RoomCodes :
           IF now - activeRooms[code].lastActivity > 30
           THEN code \notin DOMAIN activeRooms'
           ELSE /\ code \in DOMAIN activeRooms'
                /\ activeRooms'[code] = activeRooms[code]
      /\ DOMAIN activeRooms' \subseteq RoomCodes
      /\ UNCHANGED << userData, userSockets, userConnections >>

\* C11: after every reaper tick no Room with now - lastActivity > 30 minutes
\* remains in the directory, whatever its membership count; every Room with
\* now - lastActivity <= 30 minutes stays with its membership and timestamps
\* unchanged; the tick changes no Session and no rate-limit counter.
C11_ReaperRemovesIdleRooms == [][C11_ReaperStep]_vars

\* C11 witness: a tick has just run; a Session still names a room that is
\* gone from the directory, and a room idle for exactly 30 minutes is kept.
C11_Witness ==
  /\ last = "cleanup"
  /\ \E c \in Registered :
       /\ Truthy(userData[c].roomCode)
       /\ userData[c].roomCode.s \notin RoomCodes
  /\ \E code \in RoomCodes :
       /\ now - activeRooms[code].lastActivity = 30
       /\ Len(activeRooms[code].users) > 0

(* ---------------------------------- C12 --------------------------------- *)

\* C12: in every reachable state the Session Registry holds exactly one
\* Session for each accepted connection that has not disconnected, and none
\* for any other connection (so a Session survives leave-room and re-joins).
C12_OneSessionPerOpenConnection ==
  /\ Registered = OpenSockets
  /\ Len(userSockets) = Cardinality(OpenSockets)

(* ---------------------------------- C13 --------------------------------- *)

\* C13: the id of a connection that has disconnected is in no Room's
\* membership and not in the Session Registry: every Member entry and every
\* Session refers to a live connection.
C13_MembersAreLive ==
  /\ \A code \in RoomCodes : Members(code) \subseteq OpenSockets
  /\ Registered \subseteq OpenSockets

(* ---------------------------------- C14 --------------------------------- *)

\* The join-room data passes the validation.
C14_Valid(data) ==
  /\ IsString(data.roomCode) /\ IsString(data.nickname)
  /\ data.roomCode.s # << >> /\ data.nickname.s # << >>
  /\ Len(data.roomCode.s) <= 50
  /\ Len(data.nickname.s) <= 16

\* What the claim promises of the step that handles such a join.
C14_Joined(c, data) ==
  LET rc == Normalized(data.roomCode.s)
      n == Normalized(data.nickname.s)
      before == IF rc \in RoomCodes THEN activeRooms[rc].users ELSE << >>
  IN
    /\ userData'[c].nickname = Str(n)
    /\ userData'[c].roomCode = Str(rc)
    /\ DOMAIN activeRooms' = RoomCodes \cup {rc}
    /\ \A k1, k2 \in DOMAIN activeRooms' :
         Normalized(k1) = Normalized(k2) => k1 = k2
    /\ LET users == activeRooms'[rc].users IN
       /\ Cardinality({ i \in 1..Len(users) : users[i].socketId = c }) = 1
       /\ \E i \in 1..Len(users) :
            users[i].socketId = c /\ users[i].nickname = n
       /\ SelectSeq(users, LAMBDA u : u.socketId # c) =
            SelectSeq(before, LAMBDA u : u.socketId # c)
       /\ Len(outbox') >= 1
       /\ outbox'[1].event = "room-joined"
       /\ outbox'[1].to = {c}
       /\ outbox'[1].payload.userCount = Len(users)

\* Every step that handles a valid join-room of c while no connection other
\* than c holds its normalized nickname in the room of its normalized code
\* is as promised.
C14_SuccessfulJoinStep ==
  last' = "join-room" =>
    \A c \in OpenSockets, data \in JoinInputs :
      ( /\ C14_Valid(data)
        /\ JoinRoom(c, data.roomCode, data.nickname)
        /\ ~C5_Collision(c, data) ) =>
        C14_Joined(c, data)

\* C14: a join-room of connection c that passes validation and meets no
\* collision sets c's Session nickname and room to the normalized values,
\* leaves exactly one Member entry for c in the Room keyed by the normalized
\* code (creating that Room iff it did not exist, never a second Room for a
\* code differing in case or surrounding blanks), and emits room-joined to c
\* with userCount equal to the membership size after the insertion.
C14_SuccessfulJoin == [][C14_SuccessfulJoinStep]_vars

\* C14 witness: a join has just been acknowledged with a room code stored
\* trimmed and upper-cased; the room holds two members, the joiner being the
\* second.
C14_Witness ==
  /\ last = "join-room"
  /\ Len(outbox) = 3
  /\ outbox[1].event = "room-joined"
  /\ outbox[1].payload.userCount = 2
  /\ \E code \in RoomCodes :
       /\ outbox[1].payload.roomCode = code
       /\ Len(activeRooms[code].users) = 2
       /\ outbox[1].to = {activeRooms[code].users[2].socketId}

(* ---------------------------------- C15 --------------------------------- *)

\* Connection c is a Member of the room of the normalized code under the
\* normalized nickname: the join-room data repeats a join c has made.
C15_AlreadyJoined(c, data) ==
  LET rc == Normalized(data.roomCode.s)
      n == Normalized(data.nickname.s)
  IN /\ rc \in RoomCodes
     /\ \E i \in 1..Len(activeRooms[rc].users) :
          /\ activeRooms[rc].users[i].socketId = c
          /\ activeRooms[rc].users[i].nickname = n

\* What the claim promises of the step that handles the repeated join.
C15_Same(c, data) ==
  LET rc == Normalized(data.roomCode.s)
      n == Normalized(data.nickname.s)
  IN /\ Len(outbox') >= 1
     /\ outbox'[1].event = "room-joined"
     /\ outbox'[1].to = {c}
     /\ DOMAIN activeRooms' = RoomCodes
     /\ \A code \in RoomCodes : activeRooms'[code].users = activeRooms[code].users
     /\ userData'[c].nickname = Str(n)
     /\ userData'[c].roomCode = Str(rc)

C15_RejoinStep ==
  last' = "join-room" =>
    \A c \in OpenSockets, data \in JoinInputs :
      ( /\ C14_Valid(data)
        /\ C15_AlreadyJoined(c, data)
        /\ JoinRoom(c, data.roomCode, data.nickname) ) =>
        C15_Same(c, data)

\* C15: re-joining the same room with the same nickname from the same
\* connection is idempotent: the join is acknowledged with room-joined, and
\* the membership of every Room, every Member's nickname, the connection's
\* Session nickname and room, and the set of Rooms are as after the first join.
C15_RejoinIsIdempotent == [][C15_RejoinStep]_vars

\* C15 witness: the first of the two members of a room has just been
\* acknowledged, so it joined again after the second member came. The two
\* hold different nicknames at all times and the clients use two nicknames,
\* so it joined again under the nickname it had; its Session names the room.
C15_Witness ==
  /\ last = "join-room"
  /\ Len(outbox) = 3
  /\ outbox[1].event = "room-joined"
  /\ outbox[1].payload.userCount = 2
  /\ \E c \in OpenSockets :
       /\ outbox[1].to = {c}
       /\ IsString(userData[c].roomCode)
       /\ userData[c].roomCode.s \in RoomCodes
       /\ LET users == activeRooms[userData[c].roomCode.s].users IN
          /\ Len(users) = 2
          /\ users[1].socketId = c
          /\ Str(users[1].nickname) = userData[c].nickname

(* ---------------------------------- C16 --------------------------------- *)

C16_LeaveWithoutRoomStep ==
  last' = "leave-room" =>
    \A c \in OpenSockets :
      (userData[c].roomCode = Null /\ LeaveRoom(c)) =>
        /\ outbox' = << >>
        /\ UNCHANGED << userSockets, userData, activeRooms, userConnections >>

\* C16: a leave-room from a connection whose Session has no current room is a
\* no-op: the Session Registry (that connection's Session included), the Room
\* Directory, all memberships and the rate-limit counters are unchanged and
\* no event is emitted.
C16_LeaveWithoutRoomIsNoOp == [][C16_LeaveWithoutRoomStep]_vars

(* ---------------------------------- C17 --------------------------------- *)

\* The invite names a sender, a target nickname and a room.
C17_Complete(data) ==
  /\ IsString(data.fromUser) /\ data.fromUser.s # << >>
  /\ IsString(data.toUser) /\ data.toUser.s # << >>
  /\ IsString(data.roomCode) /\ data.roomCode.s # << >>

\* The connections of the Session Registry whose current nickname equals the
\* target nickname under case normalization.
C17_Matches(data) ==
  { d \in Registered :
      /\ IsString(userData[d].nickname)
      /\ ToUpperCase(userData[d].nickname.s) = ToUpperCase(data.toUser.s) }

C17_InviteStep ==
  last' = "private-chat-invite" =>
    \A c \in OpenSockets, data \in InviteInputs :
      ( /\ C17_Complete(data)
        /\ PrivateChatInvite(c, data.fromUser, data.toUser, data.roomCode) ) =>
        /\ (C17_Matches(data) # {}) <=>
             (\E i \in 1..Len(outbox') : outbox'[i].to # {})
        /\ \A i \in 1..Len(outbox') :
             outbox'[i].to # {} =>
               \E d \in C17_Matches(data) : outbox'[i].to = {d}
        /\ Len(outbox') <= 1
        /\ UNCHANGED serverState

\* C17: a private-chat-invite with target nickname t is delivered iff some
\* Session of the whole Session Registry has a current nickname equal to t
\* under case normalization; it then goes to exactly one such connection and
\* to no other, otherwise no event is emitted to anyone; no state changes.
C17_InviteDeliveredIffMatch == [][C17_InviteStep]_vars

(* ---------------------------------- C18 --------------------------------- *)

\* The members of the room `code` in a directory, none if it has no such room.
C18_MembersIn(rooms, code) ==
  IF code \in DOMAIN rooms THEN UserIds(rooms[code].users) ELSE {}

C18_MembershipChanged ==
  \E code \in RoomCodes \cup DOMAIN activeRooms' :
    C18_MembersIn(activeRooms, code) # C18_MembersIn(activeRooms', code)

\* In the events of a step that reach some connection, every delta comes
\* before every roster; a step that changes a membership emits both.
C18_OrderStep ==
  last' \in {"join-room", "leave-room", "disconnect"} =>
    /\ \A i, j \in 1..Len(outbox') :
         ( /\ outbox'[i].event \in {"user-joined", "user-left"}
           /\ outbox'[i].to # {}
           /\ outbox'[j].event = "users-updated"
           /\ outbox'[j].to # {} ) => i < j
    /\ C18_MembershipChanged =>
         /\ \E i \in 1..Len(outbox') :
              outbox'[i].event \in {"user-joined", "user-left"}
         /\ \E j \in 1..Len(outbox') : outbox'[j].event = "users-updated"

\* C18: for every membership change (a successful join, or a leave or
\* disconnect of a connection that has a room) the delta notification
\* (user-joined / user-left) to the other members is emitted before the
\* roster update (users-updated) to the room, both within the step that
\* changes the membership.
C18_DeltaBeforeRoster == [][C18_OrderStep]_vars

(* ---------------------------------- C19 --------------------------------- *)

\* The roster and the delta of a successful join into the room rc reach the
\* room's members that are connected (the joiner not the delta) and nobody
\* else; the roster lists the members in insertion order.
C19_Delivered(c, rc) ==
  LET users == activeRooms'[rc].users
      members == UserIds(users) \cap OpenSockets
  IN
    \A i \in 1..Len(outbox') :
      /\ outbox'[i].event = "users-updated" =>
           /\ outbox'[i].to = members
           /\ outbox'[i].payload.userCount = Len(users)
           /\ Len(outbox'[i].payload.users) = Len(users)
           /\ \A k \in 1..Len(users) :
                /\ outbox'[i].payload.users[k].socketId = users[k].socketId
                /\ outbox'[i].payload.users[k].nickname = users[k].nickname
      /\ outbox'[i].event = "user-joined" =>
           outbox'[i].to = members \ {c}

C19_RosterStep ==
  last' = "join-room" =>
    \A c \in OpenSockets, data \in JoinInputs :
      ( /\ C14_Valid(data)
        /\ JoinRoom(c, data.roomCode, data.nickname)
        /\ outbox'[1].event = "room-joined" ) =>
        /\ \E i \in 1..Len(outbox') : outbox'[i].event = "users-updated"
        /\ \E i \in 1..Len(outbox') : outbox'[i].event = "user-joined"
        /\ C19_Delivered(c, Normalized(data.roomCode.s))

\* C19: on every successful join of connection c to room R the users-updated
\* roster goes to exactly the connections that are Members of R after the
\* join (c included), listing R's Members in insertion order with userCount
\* the membership size, and user-joined goes to exactly the Members of R
\* other than c; no connection that is not a Member of R receives either.
C19_RosterToMembersOnly == [][C19_RosterStep]_vars

(* ---------------------------------- C20 --------------------------------- *)

\* The connected sockets whose id is the target of the signal: one or none.
C20_Target(data) ==
  { d \in OpenSockets : SocketId(d) = data.targetSocketId }

C20_SignalStep ==
  last' = "webrtc-signal" =>
    \A c \in OpenSockets, data \in SignalInputs :
      WebrtcSignal(c, data.targetSocketId, data.signal, data.type) =>
        /\ \A i \in 1..Len(outbox') : outbox'[i].to \subseteq C20_Target(data)
        /\ ( /\ data.targetSocketId # Undefined
             /\ data.signal # Undefined
             /\ C20_Target(data) \ {c} # {} ) =>
             /\ Len(outbox') = 1
             /\ outbox'[1].event = "webrtc-signal"
             /\ outbox'[1].to = C20_Target(data)
             /\ outbox'[1].payload.signal = data.signal
             /\ outbox'[1].payload.type = data.type
             /\ outbox'[1].payload.fromSocketId = c
             /\ outbox'[1].payload.fromNickname = userData[c].nickname
        /\ UNCHANGED serverState

\* C20: a webrtc-signal with a target connection id and a payload is
\* forwarded to that connection only, unmodified and tagged with the sender's
\* id, its current Session nickname and the original type, whether or not
\* the two share a room; with the id or the payload missing, or no connection
\* of that id, nothing is delivered to anyone; no state changes in any case.
C20_SignalToTargetOnly == [][C20_SignalStep]_vars

====
